---- MODULE Spec2Model ----
(***************************************************************************)
(* A model of ncm_decrypt.py: convert_ncm (the NCM container decoder) and  *)
(* the batch driver of the __main__ block.                                 *)
(*                                                                         *)
(* Bytes are integers 0..255 and a buffer is a sequence of bytes.  Python  *)
(* offsets are 0-based; Slice translates them.  An exception is a record   *)
(* [type, line]: the exception type and the source line that raises it.    *)
(***************************************************************************)
EXTENDS Integers, Sequences, FiniteSets, TLC

Byte == 0..255

Min(a, b) == IF a < b THEN a ELSE b

Max(a, b) == IF a > b THEN a ELSE b

\* Python's ^ on non-negative integers.
RECURSIVE BitXor(_, _)
BitXor(a, b) ==
  IF a = 0 THEN b
  ELSE IF b = 0 THEN a
  ELSE (((a % 2) + (b % 2)) % 2) + 2 * BitXor(a \div 2, b \div 2)

\* Python's & on non-negative integers.
RECURSIVE BitAnd(_, _)
BitAnd(a, b) ==
  IF a = 0 \/ b = 0 THEN 0
  ELSE (a % 2) * (b % 2) + 2 * BitAnd(a \div 2, b \div 2)

\* Python's s[lo:hi] for 0 <= lo, 0 <= hi: the slice is silently clipped to
\* the buffer.
Slice(s, lo, hi) ==
  IF lo >= Min(hi, Len(s)) THEN << >> ELSE SubSeq(s, lo + 1, Min(hi, Len(s)))

\* Python's s[lo:].
SliceFrom(s, lo) == Slice(s, lo, Len(s))

NoError == [type |-> "none", line |-> 0]

Raised(t, l) == [type |-> t, line |-> l]

\* struct.unpack('<I', b)[0]: exactly four bytes, little-endian, unsigned.
\* (The model's inputs keep every field below 2^31, TLC's integer range.)
unpack_I(b) == b[1] + 256 * b[2] + 65536 * b[3] + 16777216 * b[4]

\* ---------------------------------------------------------------- constants

AES_block_size == 16

CORE_KEY ==
  << 104, 122, 72, 82, 65, 109, 115, 111, 53, 107, 73, 110, 98, 97, 120, 87 >>

META_KEY ==
  << 35, 49, 52, 108, 106, 107, 95, 33, 92, 93, 38, 48, 85, 60, 39, 40 >>

NCM_MAGIC0 == 1313166403

NCM_MAGIC1 == 1296122950

KEY_XOR == 100

META_XOR == 99

KEY_PREFIX_LEN == 17

META_HEADER_LEN == 22

META_PREFIX_LEN == 6

BOX_SIZE == 256

\* ------------------------------------------------------------ block cipher

\* AES.new(key, AES.MODE_ECB).decrypt(data) of the Crypto library, which is
\* not code of this repository.  What the decoder relies on is kept: the data
\* must be a whole number of 16-byte blocks (ValueError otherwise), the
\* result has the length of the data, each block is decrypted on its own,
\* and the block map is a key-dependent bijection.  The bijection itself is
\* a stand-in (byte reversal and XOR with the key), not the AES rounds.
AES_ECB_decrypt(key, data) ==
  << >> \o [i \in 1..Len(data) |->
     LET b == (i - 1) \div AES_block_size
         k == ((i - 1) % AES_block_size) + 1
     IN BitXor(data[AES_block_size * b + AES_block_size + 1 - k], key[k])]

AES_aligned(data) == Len(data) % AES_block_size = 0

\* A slip: the pad length is not checked.
pkcs7_unpad_NoCheck(data) ==
  IF Len(data) = 0 THEN [exc |-> "IndexError", data |-> << >>]
  ELSE [exc |-> "none",
        data |-> Slice(data, 0, Max(0, Len(data) - data[Len(data)]))]

\* pkcs7_unpad: [exc, data], exc the exception it raises ("none": returns).
\* data[-1] of an empty buffer is an IndexError.
pkcs7_unpad(data) ==
  IF Len(data) = 0 THEN [exc |-> "IndexError", data |-> << >>]
  ELSE LET pad_len == data[Len(data)] IN
       IF pad_len < 1 \/ pad_len > AES_block_size
       THEN [exc |-> "ValueError", data |-> << >>]
       ELSE [exc |-> "none",
             data |-> Slice(data, 0, Max(0, Len(data) - pad_len))]

\* -------------------------------------------------------------- text codecs

\* Bytes a UTF-8 sequence starting with lead byte b0 needs; 0: no lead byte.
Utf8Need(b0) ==
  IF b0 < 128 THEN 1
  ELSE IF b0 >= 194 /\ b0 <= 223 THEN 2
  ELSE IF b0 >= 224 /\ b0 <= 239 THEN 3
  ELSE IF b0 >= 240 /\ b0 <= 244 THEN 4
  ELSE 0

Utf8SecondOk(b0, b1) ==
  IF b0 = 224 THEN b1 >= 160 /\ b1 <= 191
  ELSE IF b0 = 237 THEN b1 >= 128 /\ b1 <= 159
  ELSE IF b0 = 240 THEN b1 >= 144 /\ b1 <= 191
  ELSE IF b0 = 244 THEN b1 >= 128 /\ b1 <= 143
  ELSE b1 >= 128 /\ b1 <= 191

\* How many bytes from 0-based position p on form a valid prefix of one
\* sequence needing k bytes (v bytes are known to be valid).
RECURSIVE Utf8Valid(_, _, _, _)
Utf8Valid(bs, p, k, v) ==
  IF v < k /\ p + v < Len(bs)
     /\ (IF v = 1 THEN Utf8SecondOk(bs[p + 1], bs[p + 2])
         ELSE bs[p + v + 1] >= 128 /\ bs[p + v + 1] <= 191)
  THEN Utf8Valid(bs, p, k, v + 1)
  ELSE v

Utf8CodePoint(bs, p, k) ==
  IF k = 2 THEN (bs[p + 1] % 32) * 64 + (bs[p + 2] % 64)
  ELSE IF k = 3
  THEN (bs[p + 1] % 16) * 4096 + (bs[p + 2] % 64) * 64 + (bs[p + 3] % 64)
  ELSE (bs[p + 1] % 8) * 262144 + (bs[p + 2] % 64) * 4096
       + (bs[p + 3] % 64) * 64 + (bs[p + 4] % 64)

\* One step of bytes.decode("utf-8", errors="ignore") at 0-based position
\* st.p: a valid sequence gives its code point, an ill-formed part is dropped.
Utf8Step(bs, st) ==
  IF st.p >= Len(bs) THEN st
  ELSE LET b0 == bs[st.p + 1]
           k == Utf8Need(b0)
       IN IF k = 0 THEN [p |-> st.p + 1, out |-> st.out]
          ELSE IF k = 1 THEN [p |-> st.p + 1, out |-> Append(st.out, b0)]
          ELSE LET v == Utf8Valid(bs, st.p, k, 1) IN
               IF v = k
               THEN [p |-> st.p + k,
                     out |-> Append(st.out, Utf8CodePoint(bs, st.p, k))]
               ELSE [p |-> st.p + v, out |-> st.out]

\* n steps from st.  (The steps are halved, and the first half is evaluated
\* before the second is entered, so that the evaluation nests log n deep.)
RECURSIVE Utf8Steps(_, _, _)
Utf8Steps(bs, st, n) ==
  IF n = 0 THEN st
  ELSE IF n = 1 THEN Utf8Step(bs, st)
  ELSE LET first == Utf8Steps(bs, st, n \div 2)
       IN IF first.p >= 0 THEN Utf8Steps(bs, first, n - (n \div 2)) ELSE first

\* bytes.decode("utf-8", errors="ignore").  Never raises.  A step consumes at
\* least one byte, so Len(bs) steps reach the end.
utf8_decode_ignore(bs) == Utf8Steps(bs, [p |-> 0, out |-> << >>], Len(bs)).out

\* The value of a base64 alphabet character, 64 for any other character.
B64Value(c) ==
  IF c >= 65 /\ c <= 90 THEN c - 65
  ELSE IF c >= 97 /\ c <= 122 THEN c - 71
  ELSE IF c >= 48 /\ c <= 57 THEN c + 4
  ELSE IF c = 43 THEN 62
  ELSE IF c = 47 THEN 63
  ELSE 64

\* binascii.a2b_base64 in its default, non-strict mode, one character:
\* characters outside the alphabet are skipped and decoding stops at
\* sufficient padding.  st = [p, quad, left, pads, out, stop].
B64Step(s, st) ==
  IF st.stop \/ st.p > Len(s) THEN st
  ELSE LET c == s[st.p]
           nx == [st EXCEPT !.p = @ + 1]
       IN
       IF c = 61
       THEN IF st.quad >= 2
            THEN IF st.quad + st.pads + 1 >= 4
                 THEN [st EXCEPT !.stop = TRUE]
                 ELSE [nx EXCEPT !.pads = @ + 1]
            ELSE nx
       ELSE LET v == B64Value(c) IN
            IF v = 64 THEN nx
            ELSE IF st.quad = 0
            THEN [nx EXCEPT !.quad = 1, !.left = v, !.pads = 0]
            ELSE IF st.quad = 1
            THEN [nx EXCEPT !.quad = 2, !.left = v % 16, !.pads = 0,
                            !.out = Append(@, st.left * 4 + (v \div 16))]
            ELSE IF st.quad = 2
            THEN [nx EXCEPT !.quad = 3, !.left = v % 4, !.pads = 0,
                            !.out = Append(@, st.left * 16 + (v \div 4))]
            ELSE [nx EXCEPT !.quad = 0, !.left = 0, !.pads = 0,
                            !.out = Append(@, st.left * 64 + v)]

\* n steps from st, halved as Utf8Steps is.
RECURSIVE B64Steps(_, _, _)
B64Steps(s, st, n) ==
  IF n = 0 THEN st
  ELSE IF n = 1 THEN B64Step(s, st)
  ELSE LET first == B64Steps(s, st, n \div 2)
       IN IF first.p >= 0 THEN B64Steps(s, first, n - (n \div 2)) ELSE first

\* base64.b64decode(str): [ok, out].  A str with a non-ASCII character is a
\* ValueError, data that ends inside a quad a binascii.Error; ok is FALSE for
\* both.
b64decode(s) ==
  IF \E i \in 1..Len(s) : s[i] >= 128
  THEN [ok |-> FALSE, out |-> << >>]
  ELSE LET st == B64Steps(s, [p |-> 1, quad |-> 0, left |-> 0, pads |-> 0,
                              out |-> << >>, stop |-> FALSE], Len(s))
       IN [ok |-> st.stop \/ st.quad = 0, out |-> st.out]


\* ------------------------------------------------------------------ strings
\* A str is the sequence of its code points.

\* 'format'
STR_format ==
  << 102, 111, 114, 109, 97, 116 >>

\* 'albumPic'
STR_albumPic ==
  << 97, 108, 98, 117, 109, 80, 105, 99 >>

\* 'http:'
STR_http ==
  << 104, 116, 116, 112, 58 >>

\* 'https:'
STR_https ==
  << 104, 116, 116, 112, 115, 58 >>

\* 'flac'
STR_flac ==
  << 102, 108, 97, 99 >>

\* 'mp3'
STR_mp3 ==
  << 109, 112, 51 >>

\* 'ncm'
STR_ncm ==
  << 110, 99, 109 >>

\* b'fLaC'
FLAC_MARKER ==
  << 102, 76, 97, 67 >>

\* 'https://p4.music.126.net/nSsje95JU5hVylFPzLqWHw==/109951163542280093.jpg'
DEFAULT_ALBUM_PIC ==
  << 104, 116, 116, 112, 115, 58, 47, 47, 112, 52, 46, 109, 117, 115, 105,
     99, 46, 49, 50, 54, 46, 110, 101, 116, 47, 110, 83, 115, 106, 101, 57,
     53, 74, 85, 53, 104, 86, 121, 108, 70, 80, 122, 76, 113, 87, 72, 119,
     61, 61, 47, 49, 48, 57, 57, 53, 49, 49, 54, 51, 53, 52, 50, 50, 56, 48,
     48, 57, 51, 46, 106, 112, 103 >>

\* U+26A0 U+FE0F ' meta lost'
META_LOST ==
  << 9888, 65039, 32, 109, 101, 116, 97, 32, 108, 111, 115, 116 >>

\* str.replace(old, new), one step at position st.p: an occurrence of old is
\* replaced and skipped, any other character is kept.
ReplaceStep(s, st, old, new) ==
  IF st.p > Len(s) THEN st
  ELSE IF st.p + Len(old) - 1 <= Len(s)
          /\ SubSeq(s, st.p, st.p + Len(old) - 1) = old
  THEN [p |-> st.p + Len(old), out |-> st.out \o new]
  ELSE [p |-> st.p + 1, out |-> Append(st.out, s[st.p])]

\* n steps from st, halved as Utf8Steps is.
RECURSIVE ReplaceSteps(_, _, _, _, _)
ReplaceSteps(s, st, n, old, new) ==
  IF n = 0 THEN st
  ELSE IF n = 1 THEN ReplaceStep(s, st, old, new)
  ELSE LET first == ReplaceSteps(s, st, n \div 2, old, new)
       IN IF first.p >= 0
          THEN ReplaceSteps(s, first, n - (n \div 2), old, new)
          ELSE first

\* str.replace(old, new) for a non-empty old: left to right, occurrences do
\* not overlap.
str_replace(s, old, new) ==
  ReplaceSteps(s, [p |-> 1, out |-> << >>], Len(s), old, new).out

\* sub in s, for two str.
str_contains(s, sub) ==
  \E p \in 1..(Len(s) - Len(sub) + 1) : SubSeq(s, p, p + Len(sub) - 1) = sub

\* str.isspace() of one character.
IsSpace(c) ==
  \/ c \in {9, 10, 11, 12, 13, 28, 29, 30, 31, 32, 133, 160, 5760, 8232, 8233,
            8239, 8287, 12288}
  \/ (c >= 8192 /\ c <= 8202)

\* str.strip().
str_strip(s) ==
  LET keep == {i \in 1..Len(s) : ~IsSpace(s[i])} IN
  IF keep = {} THEN << >>
  ELSE SubSeq(s, CHOOSE i \in keep : \A j \in keep : i <= j,
                 CHOOSE i \in keep : \A j \in keep : i >= j)

\* --------------------------------------------------------------- JSON values
\* A value inside a record is [kind, v]: kind "str" with v its code points,
\* kind "int" with v = <<n>>.  A parsed document is [kind, items, v]: kind
\* "dict" with items the mapping from keys to values, or kind "list", "str",
\* "int" with v its elements, code points, or <<n>>.

JStr(s) == [kind |-> "str", v |-> s]

JInt(n) == [kind |-> "int", v |-> << n >>]

NoItems == [k \in {} |-> JInt(0)]

JDict(items) == [kind |-> "dict", items |-> items, v |-> << >>]

JOther(kind, v) == [kind |-> kind, items |-> NoItems, v |-> v]

\* bool(value) of a value inside a record.
Truthy(val) == IF val.kind = "str" THEN Len(val.v) > 0 ELSE val.v[1] # 0

\* d[k] = val
DictSet(items, k, val) ==
  [x \in DOMAIN items \cup {k} |-> IF x = k THEN val ELSE items[x]]

\* The record substituted when the metadata is absent or is not JSON.
SENTINEL ==
  JDict([album |-> JStr(META_LOST), albumPic |-> JStr(DEFAULT_ALBUM_PIC)])

\* music_meta before the metadata section has assigned it.
UNBOUND == JOther("unbound", << >>)

\* '{"format":"flac"}'
TXT_FORMAT_FLAC ==
  << 123, 34, 102, 111, 114, 109, 97, 116, 34, 58, 34, 102, 108, 97, 99, 34,
     125 >>

\* '{"format":"mp3","albumPic":"http://a/b"}'
TXT_FORMAT_MP3_PIC ==
  << 123, 34, 102, 111, 114, 109, 97, 116, 34, 58, 34, 109, 112, 51, 34, 44,
     34, 97, 108, 98, 117, 109, 80, 105, 99, 34, 58, 34, 104, 116, 116, 112,
     58, 47, 47, 97, 47, 98, 34, 125 >>

\* '{"albumPic":"http://a/b"}'
TXT_PIC ==
  << 123, 34, 97, 108, 98, 117, 109, 80, 105, 99, 34, 58, 34, 104, 116, 116,
     112, 58, 47, 47, 97, 47, 98, 34, 125 >>

\* '{"albumPic":1}'
TXT_PIC_NUMBER ==
  << 123, 34, 97, 108, 98, 117, 109, 80, 105, 99, 34, 58, 49, 125 >>

\* '[1]'
TXT_LIST ==
  << 91, 49, 93 >>

\* '7'
TXT_NUMBER ==
  << 55 >>

\* '"albumPic"'
TXT_STRING ==
  << 34, 97, 108, 98, 117, 109, 80, 105, 99, 34 >>

\* '{}'
TXT_EMPTY_RECORD ==
  << 123, 125 >>

\* '{"format":""}'
TXT_FORMAT_EMPTY ==
  << 123, 34, 102, 111, 114, 109, 97, 116, 34, 58, 34, 34, 125 >>

\* '{"format":1}'
TXT_FORMAT_NUMBER ==
  << 123, 34, 102, 111, 114, 109, 97, 116, 34, 58, 49, 125 >>

\* '{"format":"mp3"': not JSON
TXT_BROKEN ==
  << 123, 34, 102, 111, 114, 109, 97, 116, 34, 58, 34, 109, 112, 51, 34 >>

\* 'http://a/b'
STR_http_a_b ==
  << 104, 116, 116, 112, 58, 47, 47, 97, 47, 98 >>

\* json.loads(s) of the json library, as a table over the documents the
\* model's containers hold: [ok, value].  Every other text the model reaches
\* (TXT_BROKEN) is not JSON, a JSONDecodeError: ok is FALSE.
json_loads(s) ==
  IF s = TXT_FORMAT_FLAC
  THEN [ok |-> TRUE, value |-> JDict([format |-> JStr(STR_flac)])]
  ELSE IF s = TXT_FORMAT_MP3_PIC
  THEN [ok |-> TRUE,
        value |-> JDict([format |-> JStr(STR_mp3), albumPic |-> JStr(STR_http_a_b)])]
  ELSE IF s = TXT_PIC
  THEN [ok |-> TRUE, value |-> JDict([albumPic |-> JStr(STR_http_a_b)])]
  ELSE IF s = TXT_PIC_NUMBER
  THEN [ok |-> TRUE, value |-> JDict([albumPic |-> JInt(1)])]
  ELSE IF s = TXT_LIST
  THEN [ok |-> TRUE, value |-> JOther("list", << 1 >>)]
  ELSE IF s = TXT_NUMBER
  THEN [ok |-> TRUE, value |-> JOther("int", << 7 >>)]
  ELSE IF s = TXT_STRING
  THEN [ok |-> TRUE, value |-> JOther("str", STR_albumPic)]
  ELSE IF s = TXT_EMPTY_RECORD
  THEN [ok |-> TRUE, value |-> JDict(NoItems)]
  ELSE IF s = TXT_FORMAT_EMPTY
  THEN [ok |-> TRUE, value |-> JDict([format |-> JStr(<< >>)])]
  ELSE IF s = TXT_FORMAT_NUMBER
  THEN [ok |-> TRUE, value |-> JDict([format |-> JInt(1)])]
  ELSE [ok |-> FALSE, value |-> UNBOUND]


\* ------------------------------------------------- convert_ncm, by section
\* Each section of convert_ncm is an operator from the locals it reads to a
\* record of the locals it assigns, err (the exception it raises, NoError
\* when it completes) and steps (the routines it has called by then).

XorBytes(data, c) == << >> \o [i \in 1..Len(data) |-> BitXor(data[i], c)]

\* A slip: only the first magic word is compared.
VerifyHeaderOf_FirstWord(fb) ==
  LET head == Slice(fb, 0, 8) IN
  IF Len(head) # 8 THEN Raised("struct.error", 59)
  ELSE IF unpack_I(SubSeq(head, 1, 4)) # NCM_MAGIC0 THEN Raised("ValueError", 61)
  ELSE NoError

\* "Verify header": the exception raised, NoError when the magic is right.
VerifyHeaderOf(fb) ==
  LET head == Slice(fb, 0, 8) IN
  IF Len(head) # 8 THEN Raised("struct.error", 59)
  ELSE IF unpack_I(SubSeq(head, 1, 4)) # NCM_MAGIC0
          \/ unpack_I(SubSeq(head, 5, 8)) # NCM_MAGIC1
  THEN Raised("ValueError", 61)
  ELSE NoError

KeyResult(e, kl, off, kd, st) ==
  [err |-> e, key_len |-> kl, offset |-> off, key_data |-> kd, steps |-> st]

\* "Decrypt key data".
DecryptKeyData(fb, offset) ==
  LET field == Slice(fb, offset, offset + 4) IN
  IF Len(field) # 4
  THEN KeyResult(Raised("struct.error", 66), 0, offset, << >>, {})
  ELSE
  LET key_len == unpack_I(field)
      off1 == offset + 4
      key_data_encrypted == XorBytes(Slice(fb, off1, off1 + key_len), KEY_XOR)
      off2 == off1 + key_len
  IN IF ~AES_aligned(key_data_encrypted)
     THEN KeyResult(Raised("ValueError", 73), key_len, off2, << >>,
                    {"key_xor", "key_aes"})
     ELSE
     LET un == pkcs7_unpad(AES_ECB_decrypt(CORE_KEY, key_data_encrypted))
         st == {"key_xor", "key_aes", "key_unpad"}
     IN IF un.exc # "none"
        THEN KeyResult(Raised(un.exc, 74), key_len, off2, << >>, st)
        ELSE KeyResult(NoError, key_len, off2,
                       SliceFrom(un.data, KEY_PREFIX_LEN), st)

\* list(range(256)).  A list of the program is a sequence here: box[i] of
\* the program is box[i + 1] of the model.
RangeBox == << >> \o [n \in 1..BOX_SIZE |-> n - 1]

\* A slip: j is not carried from one pass to the next.
KsaIteration_NoCarry(st, i, key_data) ==
  LET j == BitAnd(st.box[i + 1] + key_data[(i % Len(key_data)) + 1], 255)
  IN [box |-> [st.box EXCEPT ![i + 1] = st.box[j + 1], ![j + 1] = st.box[i + 1]],
      j |-> j]

\* One pass of the key-scheduling loop; st = [box, j].
KsaIteration(st, i, key_data) ==
  LET j == BitAnd(st.box[i + 1] + st.j + key_data[(i % Len(key_data)) + 1], 255)
  IN [box |-> [st.box EXCEPT ![i + 1] = st.box[j + 1], ![j + 1] = st.box[i + 1]],
      j |-> j]

\* for i in range(lo, hi): the passes in order, from the loop state st.  (The
\* range is halved, and the first half is evaluated before the second is
\* entered, so that the evaluation nests 8 deep, not 256.)
RECURSIVE KsaLoop(_, _, _, _)
KsaLoop(st, lo, hi, key_data) ==
  IF hi - lo = 1 THEN KsaIteration(st, lo, key_data)
  ELSE LET mid == (lo + hi) \div 2
           first == KsaLoop(st, lo, mid, key_data)
       IN IF first.j >= 0 THEN KsaLoop(first, mid, hi, key_data) ELSE first

\* One pass of the second loop: the byte appended to key_box.
KeystreamByte(box, i) ==
  LET i1 == BitAnd(i + 1, 255)
      si == box[i1 + 1]
      sj == box[BitAnd(i1 + si, 255) + 1]
  IN box[BitAnd(si + sj, 255) + 1]

\* key_box after the second loop: its entry for i = 0..255, in order.
KeyBoxLoop(box) == << >> \o [n \in 1..BOX_SIZE |-> KeystreamByte(box, n - 1)]

\* "Generate key box": i % key_data_len divides by zero for an empty key.
GenerateKeyBox(key_data) ==
  IF Len(key_data) = 0
  THEN [err |-> Raised("ZeroDivisionError", 82), key_box |-> << >>]
  ELSE [err |-> NoError,
        key_box |->
          KeyBoxLoop(KsaLoop([box |-> RangeBox, j |-> 0], 0, BOX_SIZE,
                             key_data).box)]

\* if "albumPic" in music_meta: music_meta["albumPic"] = ....replace(...)
NormalizeAlbumPic(m) ==
  IF m.kind = "int" THEN [err |-> Raised("TypeError", 117), meta |-> m]
  ELSE IF m.kind = "list" THEN [err |-> NoError, meta |-> m]
  ELSE IF m.kind = "str"
  THEN IF str_contains(m.v, STR_albumPic)
       THEN [err |-> Raised("TypeError", 118), meta |-> m]
       ELSE [err |-> NoError, meta |-> m]
  ELSE IF "albumPic" \notin DOMAIN m.items THEN [err |-> NoError, meta |-> m]
  ELSE IF m.items["albumPic"].kind # "str"
  THEN [err |-> Raised("AttributeError", 118), meta |-> m]
  ELSE [err |-> NoError,
        meta |-> JDict(DictSet(m.items, "albumPic",
                   JStr(str_replace(m.items["albumPic"].v, STR_http, STR_https))))]

MetaResult(e, ml, off, mm, st) ==
  [err |-> e, meta_len |-> ml, offset |-> off, music_meta |-> mm, steps |-> st]

\* The else branch of "Process metadata": the block of meta_len bytes at off1.
RecoverMetadata(fb, off1, meta_len) ==
  LET meta_data == XorBytes(Slice(fb, off1, off1 + meta_len), META_XOR)
      off2 == off1 + meta_len
      b64_str == utf8_decode_ignore(SliceFrom(meta_data, META_HEADER_LEN))
      decoded == b64decode(b64_str)
      meta_ciphertext == IF decoded.ok THEN decoded.out ELSE << >>
      st1 == {"meta_xor", "meta_utf8", "meta_b64", "meta_aes"}
  IN IF ~AES_aligned(meta_ciphertext)
     THEN MetaResult(Raised("ValueError", 110), meta_len, off2, UNBOUND, st1)
     ELSE
     LET un == pkcs7_unpad(AES_ECB_decrypt(META_KEY, meta_ciphertext))
         st2 == st1 \cup {"meta_unpad"}
     IN IF un.exc # "none"
        THEN MetaResult(Raised(un.exc, 111), meta_len, off2, UNBOUND, st2)
        ELSE
        LET meta_json_str ==
              str_strip(utf8_decode_ignore(SliceFrom(un.data, META_PREFIX_LEN)))
            parsed == json_loads(meta_json_str)
            fixed == NormalizeAlbumPic(IF parsed.ok THEN parsed.value ELSE SENTINEL)
        IN MetaResult(fixed.err, meta_len, off2, fixed.meta,
                      st2 \cup {"meta_json"})

\* A slip: the metadata block is decoded even when its length is 0.
ProcessMetadata_NoEmptyCase(fb, offset) ==
  LET field == Slice(fb, offset, offset + 4) IN
  IF Len(field) # 4
  THEN MetaResult(Raised("struct.error", 92), 0, offset, UNBOUND, {})
  ELSE RecoverMetadata(fb, offset + 4, unpack_I(field))

\* "Process metadata".
ProcessMetadata(fb, offset) ==
  LET field == Slice(fb, offset, offset + 4) IN
  IF Len(field) # 4
  THEN MetaResult(Raised("struct.error", 92), 0, offset, UNBOUND, {})
  ELSE IF unpack_I(field) = 0
  THEN MetaResult(NoError, 0, offset + 4, SENTINEL, {})
  ELSE RecoverMetadata(fb, offset + 4, unpack_I(field))

\* A slip: the skip counts 13 bytes from the end of the length field.
SkipExtra_FromField(fb, offset) ==
  LET field == Slice(fb, offset + 5, offset + 9) IN
  IF Len(field) # 4
  THEN [err |-> Raised("struct.error", 121), extra |-> 0, offset |-> offset]
  ELSE [err |-> NoError, extra |-> unpack_I(field),
        offset |-> offset + 9 + unpack_I(field) + 13]

\* "Skip additional header information".
SkipExtra(fb, offset) ==
  LET field == Slice(fb, offset + 5, offset + 9) IN
  IF Len(field) # 4
  THEN [err |-> Raised("struct.error", 121), extra |-> 0, offset |-> offset]
  ELSE [err |-> NoError, extra |-> unpack_I(field),
        offset |-> offset + unpack_I(field) + 13]

\* A slip: the keystream index wraps at 255, not at 256.
DecryptAudio_Wrap255(fb, offset, key_box) ==
  LET audio_data == SliceFrom(fb, offset) IN
  << >> \o [i \in 1..Len(audio_data) |->
     BitXor(audio_data[i], key_box[((i - 1) % 255) + 1])]

\* "Decrypt audio data": audio_data[i] ^= key_box[i & 0xff] for every i.
DecryptAudio(fb, offset, key_box) ==
  LET audio_data == SliceFrom(fb, offset) IN
  << >> \o [i \in 1..Len(audio_data) |->
     BitXor(audio_data[i], key_box[BitAnd(i - 1, 255) + 1])]

\* A slip: only the first three bytes of the marker are compared.
SniffFormat_ThreeBytes(audio_data) ==
  IF Slice(audio_data, 0, 3) = SubSeq(FLAC_MARKER, 1, 3) THEN STR_flac ELSE STR_mp3

\* The format sniffed from the decrypted audio.
SniffFormat(audio_data) ==
  IF Slice(audio_data, 0, 4) = FLAC_MARKER THEN STR_flac ELSE STR_mp3

\* "Determine file format if not provided in metadata".
DetermineFormat(m, audio_data) ==
  IF m.kind = "int" THEN [err |-> Raised("TypeError", 130), meta |-> m]
  ELSE
  LET has == IF m.kind = "dict" THEN "format" \in DOMAIN m.items
             ELSE IF m.kind = "str" THEN str_contains(m.v, STR_format)
             ELSE FALSE
      line == IF Slice(audio_data, 0, 4) = FLAC_MARKER THEN 132 ELSE 134
  IN IF has /\ m.kind # "dict" THEN [err |-> Raised("TypeError", 130), meta |-> m]
     ELSE IF has /\ Truthy(m.items["format"]) THEN [err |-> NoError, meta |-> m]
     ELSE IF m.kind # "dict" THEN [err |-> Raised("TypeError", line), meta |-> m]
     ELSE [err |-> NoError,
           meta |-> JDict(DictSet(m.items, "format", JStr(SniffFormat(audio_data))))]

\* A path is [stem, ext], stem the sequence of its names without the
\* extension: os.path.splitext(p)[0] is p.stem.  None is NoPath.
NoPath == [stem |-> << >>, ext |-> << >>]

\* AUDIO_MIME_TYPE.get(format, "application/octet-stream")
MimeOf(fmt) ==
  IF fmt = STR_mp3 THEN "audio/mpeg"
  ELSE IF fmt = STR_flac THEN "audio/flac"
  ELSE "application/octet-stream"

\* "Determine output file name": '.' + format is a TypeError unless format
\* is a str.
OutputName(in_file, out_file, m) ==
  LET fmt == m.items["format"] IN
  IF fmt.kind # "str"
  THEN [err |-> Raised("TypeError", IF out_file = NoPath THEN 138 ELSE 140),
        path |-> NoPath]
  ELSE [err |-> NoError,
        path |-> [stem |-> IF out_file = NoPath THEN in_file.stem ELSE out_file.stem,
                  ext |-> fmt.v]]


\* ---------------------------------------------------------- input containers
\* The files the model reads: containers laid out the way convert_ncm reads
\* them (built by inverting its steps), and damaged variants of them.

\* struct.pack('<I', n)
pack_I(n) ==
  << n % 256, (n \div 256) % 256, (n \div 65536) % 256, n \div 16777216 >>

\* The inverse of AES_ECB_decrypt, for data of whole blocks.
AES_ECB_encrypt(key, data) ==
  << >> \o [i \in 1..Len(data) |->
     LET b == (i - 1) \div AES_block_size
         j == ((i - 1) % AES_block_size) + 1
     IN BitXor(data[AES_block_size * b + AES_block_size + 1 - j],
               key[AES_block_size + 1 - j])]

\* The inverse of pkcs7_unpad.
pkcs7_pad(data) ==
  LET pad_len == AES_block_size - (Len(data) % AES_block_size)
  IN data \o [i \in 1..pad_len |-> pad_len]

\* data with its last byte replaced by b.
WithLastByte(data, b) == [data EXCEPT ![Len(data)] = b]

B64Char(v) ==
  IF v < 26 THEN v + 65
  ELSE IF v < 52 THEN v + 71
  ELSE IF v < 62 THEN v - 4
  ELSE IF v = 62 THEN 43
  ELSE 47

\* The four characters base64.b64encode gives for the three bytes from
\* 0-based position p on, "=" for the bytes past the end.
B64Quad(bs, p) ==
  LET left == Len(bs) - p
      a == bs[p + 1]
  IN IF left = 1
     THEN << B64Char(a \div 4), B64Char((a % 4) * 16), 61, 61 >>
     ELSE IF left = 2
     THEN << B64Char(a \div 4), B64Char((a % 4) * 16 + (bs[p + 2] \div 16)),
             B64Char((bs[p + 2] % 16) * 4), 61 >>
     ELSE << B64Char(a \div 4), B64Char((a % 4) * 16 + (bs[p + 2] \div 16)),
             B64Char((bs[p + 2] % 16) * 4 + (bs[p + 3] \div 64)),
             B64Char(bs[p + 3] % 64) >>

\* base64.b64encode.
b64encode(bs) ==
  << >> \o [i \in 1..(4 * ((Len(bs) + 2) \div 3)) |->
              B64Quad(bs, 3 * ((i - 1) \div 4))[((i - 1) % 4) + 1]]

\* b'CTENFDAM': the two magic words, little-endian.
MAGIC ==
  << 67, 84, 69, 78, 70, 68, 65, 77 >>

\* b'neteasecloudmusic': the 17 bytes before the key material.
KEY_PREFIX ==
  << 110, 101, 116, 101, 97, 115, 101, 99, 108, 111, 117, 100, 109, 117, 115,
     105, 99 >>

\* b"163 key(Don't modify):": the 22 bytes before the base64 text.
META_HEADER ==
  << 49, 54, 51, 32, 107, 101, 121, 40, 68, 111, 110, 39, 116, 32, 109, 111,
     100, 105, 102, 121, 41, 58 >>

\* b'music:': the 6 bytes before the JSON text.
META_PREFIX ==
  << 109, 117, 115, 105, 99, 58 >>

\* ' {}' and a line feed: a record inside white space.
TXT_PADDED_RECORD ==
  << 32, 123, 125, 10 >>

\* The obfuscated key block whose decryption is plain.
KeyBlock(plain) == XorBytes(AES_ECB_encrypt(CORE_KEY, plain), KEY_XOR)

\* The obfuscated metadata block holding the base64 text b64_text.
MetaBlockOfText(b64_text) == XorBytes(META_HEADER \o b64_text, META_XOR)

\* The base64 text of the metadata whose decryption is plain.
MetaText(plain) == b64encode(AES_ECB_encrypt(META_KEY, plain))

MetaBlock(plain) == MetaBlockOfText(MetaText(plain))

\* The container with the given length fields and blocks; filler is what
\* lies between the extra-length field and the audio.
Layout(key_field, key_block, meta_field, meta_block, extra_field, filler, audio) ==
  MAGIC \o << 1, 112 >> \o pack_I(key_field) \o key_block
  \o pack_I(meta_field) \o meta_block
  \o << 9, 8, 7, 6, 5 >> \o pack_I(extra_field) \o filler \o audio

Filler(n) == [i \in 1..n |-> 238]

\* The audio bytes a container holds for the decoded audio plain.
ObfuscateAudio(plain, key_box) ==
  << >> \o [i \in 1..Len(plain) |-> BitXor(plain[i], key_box[((i - 1) % BOX_SIZE) + 1])]

Container(material, meta_block, extra, plain_audio) ==
  LET key_block == KeyBlock(pkcs7_pad(KEY_PREFIX \o material)) IN
  Layout(Len(key_block), key_block, Len(meta_block), meta_block, extra,
         Filler(extra + 4),
         ObfuscateAudio(plain_audio, GenerateKeyBox(material).key_box))

LongAudioLen == 258

ExtraLen == 2

OverrunLen == 1000

KeyMaterials == { << 170 >>, << 1, 2, 3 >> }

Documents ==
  { TXT_FORMAT_FLAC, TXT_FORMAT_MP3_PIC, TXT_PIC, TXT_PIC_NUMBER, TXT_LIST,
    TXT_NUMBER, TXT_STRING, TXT_EMPTY_RECORD, TXT_FORMAT_EMPTY,
    TXT_FORMAT_NUMBER, TXT_BROKEN, TXT_PADDED_RECORD }

GoodMetaText == MetaText(pkcs7_pad(META_PREFIX \o TXT_FORMAT_EMPTY))

MetaBlocks ==
  { << >> }
  \cup { MetaBlock(pkcs7_pad(META_PREFIX \o d)) : d \in Documents }
  \cup { \* the pad byte is 0, is 17
         MetaBlock(WithLastByte(pkcs7_pad(META_PREFIX \o TXT_FORMAT_FLAC), 0)),
         MetaBlock(WithLastByte(pkcs7_pad(META_PREFIX \o TXT_FORMAT_FLAC), 17)),
         \* base64 text that ends inside a quad
         MetaBlockOfText(SubSeq(GoodMetaText, 1, Len(GoodMetaText) - 3)),
         \* base64 text of half a block
         MetaBlockOfText(b64encode(<< 1, 2, 3, 4, 5, 6, 7, 8 >>)),
         \* a byte that is no UTF-8, dropped by the decoder
         MetaBlockOfText(<< 255 >> \o GoodMetaText),
         \* a two-byte UTF-8 character: the text is not ASCII
         MetaBlockOfText(<< 195, 169 >> \o GoodMetaText),
         \* a block shorter than its 22-byte header
         XorBytes(SubSeq(META_HEADER, 1, 10), META_XOR) }

PlainAudios ==
  { << >>, << 0, 1, 2 >>, SubSeq(FLAC_MARKER, 1, 3), FLAC_MARKER \o << 0, 9 >>,
    [i \in 1..LongAudioLen |-> (7 * i) % 256] }

WellFormed ==
  { Container(k, m, x, a) :
      k \in KeyMaterials, m \in MetaBlocks, x \in {0, ExtraLen}, a \in PlainAudios }

BaseMeta == MetaBlock(pkcs7_pad(META_PREFIX \o TXT_FORMAT_MP3_PIC))

Base == Container(<< 170 >>, BaseMeta, ExtraLen, FLAC_MARKER \o << 0, 9 >>)

\* Containers whose key block does not yield a key.
BadKey ==
  { Layout(Len(kb), kb, Len(BaseMeta), BaseMeta, 0, Filler(4), << 0, 1, 2 >>) :
      kb \in { KeyBlock(pkcs7_pad(KEY_PREFIX)),
               KeyBlock(pkcs7_pad(SubSeq(KEY_PREFIX, 1, 6))),
               KeyBlock(WithLastByte(pkcs7_pad(KEY_PREFIX \o << 170 >>), 0)),
               KeyBlock(WithLastByte(pkcs7_pad(KEY_PREFIX \o << 170 >>), 17)),
               << >>,
               SubSeq(KeyBlock(pkcs7_pad(KEY_PREFIX \o << 170 >>)), 1, 20) } }

\* Files that do not start with the magic words.
BadMagic == { [Base EXCEPT ![i] = 0] : i \in {1, 4, 5, 8} }

\* Every proper prefix of a well-formed container.
Truncated == { SubSeq(Base, 1, n) : n \in 0..(Len(Base) - 1) }

\* The key block of a container whose key material is the byte 170.
GoodKeyBlock == KeyBlock(pkcs7_pad(KEY_PREFIX \o << 170 >>))

\* A container without metadata, cut inside the 9 bytes that follow the
\* metadata length field.
ZeroMeta == Container(<< 170 >>, << >>, ExtraLen, << 0, 1, 2 >>)

TruncatedZeroMeta ==
  { SubSeq(ZeroMeta, 1, n) : n \in (18 + Len(GoodKeyBlock))..(26 + Len(GoodKeyBlock)) }

\* A length field that exceeds the whole file.
Overrun ==
  { Layout(OverrunLen, GoodKeyBlock, Len(BaseMeta), BaseMeta, 0, Filler(4), << 0, 1, 2 >>),
    Layout(Len(GoodKeyBlock), GoodKeyBlock, OverrunLen, BaseMeta, 0, Filler(4), << 0, 1, 2 >>),
    Layout(Len(GoodKeyBlock), GoodKeyBlock, Len(BaseMeta), BaseMeta, OverrunLen,
           Filler(4), << 0, 1, 2 >>),
    Layout(Len(GoodKeyBlock), GoodKeyBlock, 0, << >>, OverrunLen, Filler(4),
           << 0, 1, 2 >>) }

Files ==
  WellFormed \cup BadKey \cup BadMagic \cup Truncated \cup TruncatedZeroMeta
  \cup Overrun

\* ------------------------------------------------------ convert_ncm's state

VARIABLES
  \* convert_ncm
  file_bytes,   \* the bytes read from in_file
  in_file,      \* the path given as in_file
  out_file,     \* the path given as out_file (NoPath: None), then the output's
  pc,           \* the section convert_ncm is at; "done", "raised" at its end
  err,          \* the exception convert_ncm raised
  offset, key_len, key_data, key_box, meta_len, music_meta, extra, audio_data,
  steps,        \* the routines called so far
  result,       \* the value convert_ncm returns
  disk,         \* [dirs, files]: the directories made and the files written
  \* the batch driver
  conv_list,    \* the .ncm files to convert: [file, name]
  copy_list,    \* the audio files to copy: [name, readable]
  workers, embed_meta,
  main_pc,      \* where the main block is; "exit", "crashed" at its end
  main_err,     \* the exception that ended the main block
  idx,          \* the sequential loop's position in conv_list
  next_task,    \* the pool's next task to hand to a worker
  running,      \* the tasks the pool's workers are running
  active,       \* the running task whose call of convert_ncm is being stepped
  results,      \* the pool's results, in the order of completion
  consumed,     \* how many results the main loop has taken
  cidx,         \* the copy loop's position in copy_list
  copied,       \* the copy_list entries copied
  tagged,       \* the output files embed_metadata has tagged
  printed       \* "All files processed." is printed

locals ==
  << file_bytes, in_file, out_file, pc, err, offset, key_len, key_data, key_box,
     meta_len, music_meta, extra, audio_data, steps, result >>

batch ==
  << conv_list, copy_list, workers, embed_meta, main_pc, main_err, idx,
     next_task, running, active, results, consumed, cidx, copied, tagged, printed >>

vars == << locals, disk, batch >>

NoResult == [meta |-> UNBOUND, audio_file |-> NoPath, mime |-> ""]

\* The batch driver is not running.
BatchIdle ==
  /\ conv_list = << >> /\ copy_list = << >> /\ workers = 1 /\ embed_meta = FALSE
  /\ main_pc = "idle" /\ main_err = NoError /\ idx = 1 /\ next_task = 1
  /\ running = {} /\ active = 0 /\ results = << >> /\ consumed = 0 /\ cidx = 1
  /\ copied = {} /\ tagged = {} /\ printed = FALSE

\* One call of convert_ncm on one file.
Init ==
  /\ BatchIdle
  /\ file_bytes \in Files
  /\ in_file = [stem |-> << "music", "in" >>, ext |-> STR_ncm]
  /\ out_file \in {NoPath, [stem |-> << "target", "song" >>, ext |-> << >>]}
  /\ pc = "header"
  /\ err = NoError
  /\ offset = 0
  /\ key_len = 0
  /\ key_data = << >>
  /\ key_box = << >>
  /\ meta_len = 0
  /\ music_meta = UNBOUND
  /\ extra = 0
  /\ audio_data = << >>
  /\ steps = {}
  /\ disk = [dirs |-> {}, files |-> {}]
  /\ result = NoResult

NextPc(e, next) == IF e = NoError THEN next ELSE "raised"

VerifyHeader ==
  /\ pc = "header"
  /\ LET e == VerifyHeaderOf(file_bytes) IN
       /\ err' = e
       /\ pc' = NextPc(e, "key")
       /\ offset' = IF e = NoError THEN 10 ELSE offset
  /\ UNCHANGED << file_bytes, in_file, out_file, key_len, key_data, key_box,
                  meta_len, music_meta, extra, audio_data, steps, disk, result >>
  /\ UNCHANGED batch

DecryptKey ==
  /\ pc = "key"
  /\ LET r == DecryptKeyData(file_bytes, offset) IN
       /\ err' = r.err
       /\ pc' = NextPc(r.err, "keybox")
       /\ offset' = r.offset
       /\ key_len' = r.key_len
       /\ key_data' = r.key_data
       /\ steps' = steps \cup r.steps
  /\ UNCHANGED << file_bytes, in_file, out_file, key_box, meta_len, music_meta,
                  extra, audio_data, disk, result >>
  /\ UNCHANGED batch

KeyBox ==
  /\ pc = "keybox"
  /\ LET r == GenerateKeyBox(key_data) IN
       /\ err' = r.err
       /\ pc' = NextPc(r.err, "meta")
       /\ key_box' = r.key_box
       /\ steps' = steps \cup {"key_box"}
  /\ UNCHANGED << file_bytes, in_file, out_file, offset, key_len, key_data,
                  meta_len, music_meta, extra, audio_data, disk, result >>
  /\ UNCHANGED batch

Metadata ==
  /\ pc = "meta"
  /\ LET r == ProcessMetadata(file_bytes, offset) IN
       /\ err' = r.err
       /\ pc' = NextPc(r.err, "skip")
       /\ offset' = r.offset
       /\ meta_len' = r.meta_len
       /\ music_meta' = r.music_meta
       /\ steps' = steps \cup r.steps
  /\ UNCHANGED << file_bytes, in_file, out_file, key_len, key_data, key_box,
                  extra, audio_data, disk, result >>
  /\ UNCHANGED batch

Skip ==
  /\ pc = "skip"
  /\ LET r == SkipExtra(file_bytes, offset) IN
       /\ err' = r.err
       /\ pc' = NextPc(r.err, "audio")
       /\ offset' = r.offset
       /\ extra' = r.extra
  /\ UNCHANGED << file_bytes, in_file, out_file, key_len, key_data, key_box,
                  meta_len, music_meta, audio_data, steps, disk, result >>
  /\ UNCHANGED batch

Audio ==
  /\ pc = "audio"
  /\ audio_data' = DecryptAudio(file_bytes, offset, key_box)
  /\ steps' = steps \cup {"audio_xor"}
  /\ pc' = "format"
  /\ UNCHANGED << file_bytes, in_file, out_file, err, offset, key_len, key_data,
                  key_box, meta_len, music_meta, extra, disk, result >>
  /\ UNCHANGED batch

Format ==
  /\ pc = "format"
  /\ LET r == DetermineFormat(music_meta, audio_data) IN
       /\ err' = r.err
       /\ pc' = NextPc(r.err, "write")
       /\ music_meta' = r.meta
  /\ UNCHANGED << file_bytes, in_file, out_file, offset, key_len, key_data,
                  key_box, meta_len, extra, audio_data, steps, disk, result >>
  /\ UNCHANGED batch

\* The output's name, os.makedirs, the write and the return.
WriteOutput ==
  /\ pc = "write"
  /\ LET r == OutputName(in_file, out_file, music_meta) IN
       /\ err' = r.err
       /\ pc' = NextPc(r.err, "done")
       /\ IF r.err = NoError
          THEN /\ out_file' = r.path
               /\ disk' = [dirs |-> disk.dirs \cup {<< r.path.stem[1] >>},
                           files |-> disk.files
                                     \cup {[path |-> r.path, data |-> audio_data]}]
               /\ steps' = steps \cup {"makedirs", "write"}
               /\ result' = [meta |-> music_meta, audio_file |-> r.path,
                             mime |-> MimeOf(music_meta.items["format"].v)]
          ELSE UNCHANGED << out_file, disk, steps, result >>
  /\ UNCHANGED << file_bytes, in_file, offset, key_len, key_data, key_box,
                  meta_len, music_meta, extra, audio_data >>
  /\ UNCHANGED batch

Next ==
  \/ VerifyHeader
  \/ DecryptKey
  \/ KeyBox
  \/ Metadata
  \/ Skip
  \/ Audio
  \/ Format
  \/ WriteOutput

Spec == Init /\ [][Next]_vars


\* ---------------------------------------------------------- the batch driver
\* The main block, from the line after gather_files.  A call of convert_ncm
\* runs as the steps above.  The pool's workers are processes of their own
\* that share the file system only, where each writes the file of its task:
\* their calls are stepped one at a time, and finish in any order.

MaxConv == 2

MaxCopy == 1

MaxWorkers == 2

\* The containers of a batch: one that converts, one without the magic words,
\* one whose key block has a bad pad byte.
BadPadFile ==
  Layout(Len(GoodKeyBlock),
         KeyBlock(WithLastByte(pkcs7_pad(KEY_PREFIX \o << 170 >>), 0)),
         Len(BaseMeta), BaseMeta, 0, Filler(4), << 0, 1, 2 >>)

BatchFiles == { Base, [Base EXCEPT ![1] = 0], BadPadFile }

SeqsUpTo(S, n) == UNION { [1..k -> S] : k \in 0..n }

\* gather_files' two lists: entry i of conv_list is (in_file, rel_path) with
\* rel_path the i-th name; a copy entry says whether shutil.copy2 can read it.
ConvLists ==
  { [i \in DOMAIN fs |-> [file |-> fs[i], name |-> i]] :
      fs \in SeqsUpTo(BatchFiles, MaxConv) }

CopyLists ==
  { [i \in DOMAIN rs |-> [name |-> i, readable |-> rs[i]]] :
      rs \in SeqsUpTo(BOOLEAN, MaxCopy) }

\* The main block after gather_files and the resolution of workers.
BatchInit ==
  /\ conv_list \in ConvLists
  /\ copy_list \in CopyLists
  /\ workers \in 1..MaxWorkers
  /\ embed_meta \in BOOLEAN
  /\ main_pc = "start" /\ main_err = NoError /\ idx = 1 /\ next_task = 1
  /\ running = {} /\ active = 0 /\ results = << >> /\ consumed = 0 /\ cidx = 1
  /\ copied = {} /\ tagged = {} /\ printed = FALSE
  /\ disk = [dirs |-> {}, files |-> {}]
  /\ file_bytes = << >> /\ in_file = NoPath /\ out_file = NoPath
  /\ pc = "idle" /\ err = NoError /\ offset = 0
  /\ key_len = 0 /\ key_data = << >> /\ key_box = << >>
  /\ meta_len = 0 /\ music_meta = UNBOUND
  /\ extra = 0 /\ audio_data = << >>
  /\ steps = {} /\ result = NoResult

total_conv == Len(conv_list)

\* result = convert_ncm(in_file, out_file) for entry i of conv_list, with
\* out_file = os.path.join(target, os.path.splitext(rel_path)[0]): the call
\* is entered.
CallConvert(i) ==
  /\ file_bytes' = conv_list[i].file
  /\ in_file' = [stem |-> << "src", conv_list[i].name >>, ext |-> STR_ncm]
  /\ out_file' = [stem |-> << "target", conv_list[i].name >>, ext |-> << >>]
  /\ pc' = "header" /\ err' = NoError /\ offset' = 0
  /\ key_len' = 0 /\ key_data' = << >> /\ key_box' = << >>
  /\ meta_len' = 0 /\ music_meta' = UNBOUND
  /\ extra' = 0 /\ audio_data' = << >>
  /\ steps' = {} /\ result' = NoResult

\* if embed: embed_metadata(result["audio_file"], result["meta"])
Embedded == IF embed_meta THEN tagged \cup {result.audio_file} ELSE tagged

\* if total_conv > 0: if workers > 1: ... else: ...
StartConversion ==
  /\ main_pc = "start"
  /\ main_pc' = IF total_conv = 0 THEN "copy"
                ELSE IF workers > 1 THEN "pool" ELSE "loop"
  /\ UNCHANGED << conv_list, copy_list, workers, embed_meta, main_err, idx,
                  next_task, running, active, results, consumed, cidx, copied,
                  tagged, printed, disk >>
  /\ UNCHANGED locals

\* The sequential loop calls convert_ncm on its next entry.
LoopCall ==
  /\ main_pc = "loop"
  /\ pc = "idle"
  /\ idx <= total_conv
  /\ CallConvert(idx)
  /\ UNCHANGED << disk, batch >>

\* convert_ncm has returned: the metadata is embedded on request and the loop
\* goes on.
LoopReturn ==
  /\ main_pc = "loop"
  /\ pc = "done"
  /\ tagged' = Embedded
  /\ idx' = idx + 1
  /\ pc' = "idle"
  /\ UNCHANGED << conv_list, copy_list, workers, embed_meta, main_pc, main_err,
                  next_task, running, active, results, consumed, cidx, copied,
                  printed, disk >>
  /\ UNCHANGED << file_bytes, in_file, out_file, err, offset, key_len, key_data,
                  key_box, meta_len, music_meta, extra, audio_data, steps,
                  result >>

\* convert_ncm has raised: nothing catches the exception, which leaves the
\* loop and ends the main block.
LoopRaise ==
  /\ main_pc = "loop"
  /\ pc = "raised"
  /\ main_pc' = "crashed"
  /\ main_err' = err
  /\ UNCHANGED << conv_list, copy_list, workers, embed_meta, idx, next_task,
                  running, active, results, consumed, cidx, copied, tagged,
                  printed, disk >>
  /\ UNCHANGED locals

LoopEnd ==
  /\ main_pc = "loop"
  /\ pc = "idle"
  /\ idx > total_conv
  /\ main_pc' = "copy"
  /\ UNCHANGED << conv_list, copy_list, workers, embed_meta, main_err, idx,
                  next_task, running, active, results, consumed, cidx, copied,
                  tagged, printed, disk >>
  /\ UNCHANGED locals

\* The main block is iterating imap_unordered, or has left it with an
\* exception and has not yet ended the pool's workers.
PoolAlive == main_pc \in {"pool", "crashing"}

\* An idle worker of the pool takes the next task.
WorkerStart ==
  /\ PoolAlive
  /\ Cardinality(running) < workers
  /\ next_task <= total_conv
  /\ running' = running \cup {next_task}
  /\ next_task' = next_task + 1
  /\ UNCHANGED << conv_list, copy_list, workers, embed_meta, main_pc, main_err,
                  idx, active, results, consumed, cidx, copied, tagged, printed,
                  disk >>
  /\ UNCHANGED locals

\* A worker's process_conversion_item calls convert_ncm on its task.
WorkerCall ==
  /\ PoolAlive
  /\ active = 0
  /\ \E i \in running :
       /\ active' = i
       /\ CallConvert(i)
  /\ UNCHANGED << conv_list, copy_list, workers, embed_meta, main_pc, main_err,
                  idx, next_task, running, results, consumed, cidx, copied,
                  tagged, printed, disk >>

\* The worker's call has returned or raised: process_conversion_item embeds
\* the metadata on request, and its return value, or the exception, goes to
\* the main process.
WorkerFinish ==
  /\ PoolAlive
  /\ active # 0
  /\ pc \in {"done", "raised"}
  /\ results' = Append(results, [task |-> active, err |-> err])
  /\ tagged' = IF pc = "done" THEN Embedded ELSE tagged
  /\ running' = running \ {active}
  /\ active' = 0
  /\ pc' = "idle"
  /\ UNCHANGED << conv_list, copy_list, workers, embed_meta, main_pc, main_err,
                  idx, next_task, consumed, cidx, copied, printed, disk >>
  /\ UNCHANGED << file_bytes, in_file, out_file, err, offset, key_len, key_data,
                  key_box, meta_len, music_meta, extra, audio_data, steps,
                  result >>

\* The main loop takes the next result of imap_unordered, which re-raises a
\* task's exception: nothing catches it.
PoolResult ==
  /\ main_pc = "pool"
  /\ results # << >>
  /\ results' = Tail(results)
  /\ IF Head(results).err = NoError
     THEN /\ consumed' = consumed + 1
          /\ UNCHANGED << main_pc, main_err >>
     ELSE /\ main_pc' = "crashing"
          /\ main_err' = Head(results).err
          /\ UNCHANGED consumed
  /\ UNCHANGED << conv_list, copy_list, workers, embed_meta, idx, next_task,
                  running, active, cidx, copied, tagged, printed, disk >>
  /\ UNCHANGED locals

\* pool.close(); pool.join()
PoolJoin ==
  /\ main_pc = "pool"
  /\ consumed = total_conv
  /\ main_pc' = "copy"
  /\ UNCHANGED << conv_list, copy_list, workers, embed_meta, main_err, idx,
                  next_task, running, active, results, consumed, cidx, copied,
                  tagged, printed, disk >>
  /\ UNCHANGED locals

\* The interpreter exits on the uncaught exception and ends the workers,
\* whatever they are doing.
PoolAbort ==
  /\ main_pc = "crashing"
  /\ main_pc' = "crashed"
  /\ running' = {}
  /\ active' = 0
  /\ pc' = "idle"
  /\ UNCHANGED << conv_list, copy_list, workers, embed_meta, main_err, idx,
                  next_task, results, consumed, cidx, copied, tagged, printed,
                  disk >>
  /\ UNCHANGED << file_bytes, in_file, out_file, err, offset, key_len, key_data,
                  key_box, meta_len, music_meta, extra, audio_data, steps,
                  result >>

\* One iteration of the copy loop: an exception is logged and the loop goes on.
CopyFile ==
  /\ main_pc = "copy"
  /\ cidx <= Len(copy_list)
  /\ copied' = IF copy_list[cidx].readable THEN copied \cup {cidx} ELSE copied
  /\ cidx' = cidx + 1
  /\ UNCHANGED << conv_list, copy_list, workers, embed_meta, main_pc, main_err,
                  idx, next_task, running, active, results, consumed, tagged,
                  printed, disk >>
  /\ UNCHANGED locals

\* print("All files processed.")
Finish ==
  /\ main_pc = "copy"
  /\ cidx > Len(copy_list)
  /\ printed' = TRUE
  /\ main_pc' = "exit"
  /\ UNCHANGED << conv_list, copy_list, workers, embed_meta, main_err, idx,
                  next_task, running, active, results, consumed, cidx, copied,
                  tagged, disk >>
  /\ UNCHANGED locals

BatchNext ==
  \/ StartConversion
  \/ LoopCall
  \/ LoopReturn
  \/ LoopRaise
  \/ LoopEnd
  \/ WorkerStart
  \/ WorkerCall
  \/ WorkerFinish
  \/ PoolResult
  \/ PoolJoin
  \/ PoolAbort
  \/ CopyFile
  \/ Finish
  \/ VerifyHeader
  \/ DecryptKey
  \/ KeyBox
  \/ Metadata
  \/ Skip
  \/ Audio
  \/ Format
  \/ WriteOutput

SpecBatch == BatchInit /\ [][BatchNext]_vars


\* ------------------------------------------------------------------- claims

Terminal == pc \in {"done", "raised"}

\* The file starts with the two magic words.
HasMagic == Len(file_bytes) >= 8 /\ SubSeq(file_bytes, 1, 8) = MAGIC

NoOutput == disk = [dirs |-> {}, files |-> {}]

KeySteps == {"key_xor", "key_aes", "key_unpad", "key_box"}

MetaSteps ==
  {"meta_xor", "meta_utf8", "meta_b64", "meta_aes", "meta_unpad", "meta_json"}

\* C4: a file whose first 8 bytes are not the two magic words is rejected with
\* the "Not an NCM file" error (a file of fewer than 8 bytes with the unpack
\* error of the same statement), before any key or metadata step has run and
\* with no directory or file created.
C4_BadMagicRejected ==
  (pc # "header" /\ ~HasMagic) =>
    /\ pc = "raised"
    /\ err = IF Len(file_bytes) >= 8 THEN Raised("ValueError", 61)
             ELSE Raised("struct.error", 59)
    /\ steps = {}
    /\ key_box = << >> /\ music_meta = UNBOUND
    /\ NoOutput

C4_Witness ==
  /\ pc = "raised" /\ err = Raised("ValueError", 61)
  /\ Len(file_bytes) > 100 /\ SubSeq(file_bytes, 1, 4) = SubSeq(MAGIC, 1, 4)

\* The reference derivation of the keystream table, as the specification
\* words it: box is a function on 0..255 and every index is taken mod 256.
RefSwap(box, a, b) ==
  LET f == [x \in 0..255 |->
              IF x = a THEN box[b] ELSE IF x = b THEN box[a] ELSE box[x]]
  IN f @@ f

\* [box, j] after the scheduling passes lo..hi-1, from [box, j] = st.
RECURSIVE RefSchedule(_, _, _, _)
RefSchedule(st, lo, hi, key) ==
  IF lo = hi THEN st
  ELSE IF hi = lo + 1
  THEN LET j == (st.box[lo] + st.j + key[(lo % Len(key)) + 1]) % 256
       IN [box |-> RefSwap(st.box, lo, j), j |-> j]
  ELSE LET mid == (lo + hi) \div 2
           half == RefSchedule(st, lo, mid, key)
       IN IF half.j \in 0..255 THEN RefSchedule(half, mid, hi, key) ELSE half

RefTable(key) ==
  LET id == [x \in 0..255 |-> x]
      box == RefSchedule([box |-> id @@ id, j |-> 0], 0, 256, key).box
  IN [i \in 0..255 |->
        LET i1 == (i + 1) % 256
            si == box[i1]
            sj == box[(i1 + si) % 256]
        IN box[(si + sj) % 256]]

\* C5: the keystream table convert_ncm builds is the reference derivation
\* from the key material: 256 entries, each a byte, entry i equal to the
\* reference table's entry i.
C5_KeystreamIsReference ==
  (pc \in {"meta", "done"}) =>
    /\ Len(key_data) > 0
    /\ Len(key_box) = 256
    /\ \A i \in 0..255 : key_box[i + 1] \in Byte
    /\ LET ref == RefTable(key_data)
       IN \A i \in 0..255 : key_box[i + 1] = ref[i]

C5_Witness ==
  /\ pc = "meta" /\ Len(key_data) = 3
  /\ SubSeq(key_box, 1, 5) = << 171, 69, 160, 53, 165 >>

\* The obfuscated audio: the file from the offset the skip section leaves.
Payload == SliceFrom(file_bytes, offset)

\* C6: the decrypted audio has the payload's length, byte i is payload byte i
\* XOR table[i mod 256] at every position, the table is still the one built
\* from the key, and the same pass over the output gives the payload back.
C6_AudioIsXorOfKeystream ==
  (pc = "format") =>
    /\ Len(audio_data) = Len(Payload)
    /\ \A i \in 0..(Len(audio_data) - 1) :
         audio_data[i + 1] = BitXor(Payload[i + 1], key_box[(i % 256) + 1])
    /\ key_box = GenerateKeyBox(key_data).key_box
    /\ \A i \in 0..(Len(audio_data) - 1) :
         BitXor(audio_data[i + 1], key_box[(i % 256) + 1]) = Payload[i + 1]

C6_Witness ==
  /\ pc = "format" /\ Len(audio_data) > 256
  /\ audio_data[257] = 7 /\ audio_data[258] = 14

\* The key block as decrypted, read from the file by the layout.
KeyLenField == unpack_I(SubSeq(file_bytes, 11, 14))

KeyPlain ==
  AES_ECB_decrypt(CORE_KEY, XorBytes(SubSeq(file_bytes, 15, 14 + KeyLenField), KEY_XOR))

\* The key block is whole blocks inside the file.
KeyBlockWhole ==
  /\ HasMagic /\ Len(file_bytes) >= 14
  /\ KeyLenField > 0 /\ KeyLenField % 16 = 0 /\ 14 + KeyLenField <= Len(file_bytes)

KeyPadBad ==
  KeyBlockWhole /\ (KeyPlain[Len(KeyPlain)] < 1 \/ KeyPlain[Len(KeyPlain)] > 16)

KeyMaterialEmpty ==
  KeyBlockWhole /\ ~KeyPadBad /\ Len(KeyPlain) - KeyPlain[Len(KeyPlain)] <= 17

\* C7: when the decrypted key block's pad byte is < 1 or > 16, or the key
\* material left after the 17-byte prefix is empty, convert_ncm ends in an
\* error (the padding error, the division by the zero key length), no
\* keystream table exists, no audio is decrypted and nothing is written.
C7_KeyFailureIsFatal ==
  (KeyPadBad \/ KeyMaterialEmpty) =>
    /\ pc \in {"header", "key", "keybox", "raised"}
    /\ key_box = << >>
    /\ "audio_xor" \notin steps
    /\ NoOutput
    /\ Terminal =>
         err = IF KeyPadBad THEN Raised("ValueError", 74)
               ELSE Raised("ZeroDivisionError", 82)

C7_Witness ==
  /\ pc = "raised" /\ KeyPadBad /\ KeyPlain[Len(KeyPlain)] = 17

\* The metadata as recovered, before the format section.
Recovered == ProcessMetadata(file_bytes, 14 + key_len).music_meta

DeclaresFormat(m) ==
  /\ "format" \in DOMAIN m.items
  /\ IF m.items["format"].kind = "str" THEN m.items["format"].v # << >>
     ELSE m.items["format"].v # << 0 >>

StartsWithFlac(a) ==
  Len(a) >= 4 /\ a[1] = 102 /\ a[2] = 76 /\ a[3] = 97 /\ a[4] = 67

\* C8: a non-empty format of the recovered metadata is kept whatever the
\* audio is; an absent or empty one becomes flac exactly when the decrypted
\* audio starts with 'fLaC' and mp3 otherwise; the rest of the metadata is
\* untouched, and the written file's extension is the resolved format.
C8_FormatResolution ==
  (pc \in {"write", "done"}) =>
    /\ music_meta.kind = "dict"
    /\ IF DeclaresFormat(Recovered) THEN music_meta = Recovered
       ELSE /\ music_meta.items["format"] =
                 JStr(IF StartsWithFlac(audio_data) THEN STR_flac ELSE STR_mp3)
            /\ DOMAIN music_meta.items = DOMAIN Recovered.items \cup {"format"}
            /\ \A k \in DOMAIN Recovered.items :
                 k # "format" => music_meta.items[k] = Recovered.items[k]
    /\ pc = "done" =>
         /\ result.audio_file.ext = music_meta.items["format"].v
         /\ disk.files = {[path |-> result.audio_file, data |-> audio_data]}

C8_Witness ==
  /\ pc = "done" /\ ~DeclaresFormat(Recovered)
  /\ StartsWithFlac(audio_data) /\ result.audio_file.ext = STR_flac

\* The metadata length field is in the file and is 0.
MetaLenIsZero ==
  /\ Len(file_bytes) >= 18 + key_len
  /\ SubSeq(file_bytes, 15 + key_len, 18 + key_len) = << 0, 0, 0, 0 >>

PastMetadata == key_box # << >> /\ pc # "meta"

\* C9: with a metadata length of 0 the metadata is the sentinel record, none
\* of the metadata steps has run, and decoding goes on to the audio: it ends
\* in success, with the sentinel record returned and the audio written, for
\* every container that holds the 9 bytes after the metadata length field (a
\* file cut before them ends in the unpack error of the skip section).
C9_EmptyMetadataIsSentinel ==
  (PastMetadata /\ MetaLenIsZero) =>
    /\ steps \cap MetaSteps = {}
    /\ meta_len = 0
    /\ music_meta.kind = "dict"
    /\ music_meta.items["album"] = JStr(META_LOST)
    /\ music_meta.items["albumPic"] = JStr(DEFAULT_ALBUM_PIC)
    /\ DOMAIN music_meta.items \subseteq {"album", "albumPic", "format"}
    /\ pc = "raised" => (err = Raised("struct.error", 121)
                         /\ Len(file_bytes) < 18 + key_len + 9)
    /\ pc = "done" => (result.meta = music_meta /\ ~NoOutput)

C9_Witness ==
  /\ pc = "done" /\ MetaLenIsZero /\ Len(audio_data) > 0
  /\ result.meta.items["album"] = JStr(META_LOST)

\* C10 as amended: the audio starts extraLen + 13 bytes after the metadata
\* block (the 13 bytes include the 5-byte gap and the 4-byte extraLen field),
\* with extraLen read from the 4 bytes that follow the 5-byte gap.
C10_AudioOffset ==
  (pc \in {"audio", "format", "write", "done"}) =>
    /\ offset = 10 + 4 + key_len + 4 + meta_len + extra + 13
    /\ LET m == 10 + 4 + key_len + 4 + meta_len
       IN /\ Len(file_bytes) >= m + 9
          /\ extra = unpack_I(SubSeq(file_bytes, m + 6, m + 9))
    /\ pc # "audio" => Len(audio_data) = Max(0, Len(file_bytes) - offset)

C10_Witness ==
  /\ pc = "done" /\ extra = ExtraLen /\ meta_len > 0 /\ key_len = 32
  /\ Len(audio_data) = 6

\* C10 as stated: the audio starts after the 5-byte gap, the 4-byte field
\* and a further extraLen + 13 bytes.
C10_AudioOffsetAsStated ==
  (pc \in {"audio", "format", "write", "done"}) =>
    offset = 10 + 4 + key_len + 4 + meta_len + 5 + 4 + extra + 13

\* C1: with valid magic, a key and the metadata block inside the file, no
\* failure of the metadata path ends convert_ncm in an error: it returns the
\* sentinel record and writes the decrypted audio.
C1_MetadataFailureDegrades ==
  (/\ HasMagic /\ key_box # << >>
   /\ Len(file_bytes) >= 18 + key_len + meta_len + 9
   /\ pc = "raised")
  => err.line \notin {110, 111, 117, 118, 130, 132, 134}

\* C3: a container with valid magic in which a length field runs past the
\* end of the file never converts: no output file is written.
C3_TruncatedContainerFails ==
  (/\ HasMagic
   /\ \/ 14 + key_len > Len(file_bytes)
      \/ 18 + key_len + meta_len > Len(file_bytes)
      \/ offset > Len(file_bytes))
  => (pc # "done" /\ NoOutput)

\* The output file convert_ncm writes for entry i of conv_list.
Converted(i) ==
  \E f \in disk.files : f.path.stem = << "target", conv_list[i].name >>

BatchEnded == main_pc \in {"exit", "crashed"}

\* C2: when a batch run has ended, every container of the conversion list
\* that convert_ncm converts has been converted, every entry of the copy list
\* has been tried, and "All files processed." has been printed, whatever
\* containers of the list failed and wherever they are in the list.
C2_FailureIsolated ==
  BatchEnded =>
    /\ \A i \in DOMAIN conv_list : conv_list[i].file = Base => Converted(i)
    /\ cidx > Len(copy_list)
    /\ printed

====
